---- MODULE Spec2Model ----
(***************************************************************************)
(* Model of the GoMarble MCP bridge server (src/unnamed/part_000) and of   *)
(* the minimal EventSource transport (src/server-eventsource.js).          *)
(*                                                                         *)
(* The bridge runs on a single-threaded event loop.  One action of the     *)
(* model is one macrotask (an HTTP request arriving, a stream event, a     *)
(* timer firing, a fetch completing) together with every promise           *)
(* continuation (microtask) it triggers, up to the next await on a timer   *)
(* or on the network.                                                      *)
(*                                                                         *)
(* Strings that the code inspects with String.includes (error messages)    *)
(* are sequences of tokens; Includes is the substring test on tokens.      *)
(* Time is not measured: an armed timer may fire at any moment, and the    *)
(* test "Date.now() - start < 20000" is an input of the step that makes it.*)
(***************************************************************************)
EXTENDS Integers, Sequences, FiniteSets, TLC

\* the bridge: the credential, the requests received (inv), the closure of each
\* request's current session attempt (sess), the promise chain of the tool route
VARIABLES API_KEY, inv, sess, callQueue
\* the transport: one EventSource object (conn) and the text its server sends (wire)
VARIABLES conn, wire

bridge == <<API_KEY, inv, sess, callQueue>>
transport == <<conn, wire>>
vars == <<API_KEY, inv, sess, callQueue, conn, wire>>

\* ------------------------------------------------------------------ bounds
\* requests (POST /api/mcp/tool and GET /api/mcp/tools) that arrive in a run
MaxInvocations == 2
\* endpoint announcements the backend sends on one stream
MaxEndpoints == 2
\* request ids the correlator is driven with (the bridge itself uses 1 and 2)
MaxIds == 3
\* frames in the text the transport is fed
MaxFrames == 2
\* initialize requests one doInitialize chain sends before the deadline test fails
MaxPolls == 2
\* the same, where only the backoff of the loop is followed
MaxBackoffs == 7
\* the same, on a backend that becomes ready at the third request
ScenarioPolls == 3
\* calls of close() on one EventSource
MaxCloses == 2
\* lines of the arbitrary text the frame parser is fed
MaxLines == 3

\* ------------------------------------------------------- program constants
\* mcpToolCall(toolName, toolArgs, maxRetries = 3)
maxRetries == 3
\* let delay = 500 (ms)
InitialDelay == 500
\* Math.min(delay * 1.5, 3000)
DelayCap == 3000
\* delays are kept in quarters of a millisecond so that delay * 1.5 stays integral
TimeScale == 4

\* ------------------------------------------------------------------ strings
Includes(s, pat) ==
    \E k \in 1..(Len(s) - Len(pat) + 1) : SubSeq(s, k, k + Len(pat) - 1) = pat

NoTransportFound == <<"No transport found">>
Post400 == <<"POST", "400">>
SSE == <<"SSE">>
TransportNever == <<"Transport never">>

\* new Error(`MCP error ${code}: ${message}`); e = <<code>> \o message
McpError(e) == <<"MCP error", Head(e), ":">> \o Tail(e)
\* new Error(`SSE connection failed: ${event.message || 'unknown'}`)
SseError(m) == <<"SSE", "connection failed:">> \o (IF m = <<>> THEN <<"unknown">> ELSE m)
\* new Error(`Timeout waiting for ${method} response`)
TimeoutError(method) == <<"Timeout waiting for", method, "response">>
\* new Error(`POST ${r.status}: ${body}`)
PostError(status, body) == <<"POST", status, ":">> \o body
SessionTimeoutError == <<"Session", "timeout">>
TransportNeverError == <<"Transport never", "became ready">>

\* const isTransport = err.message.includes('No transport found') || err.message.includes('POST 400')
isTransport(err) == Includes(err, NoTransportFound) \/ Includes(err, Post400)

isTransientMutNoSse(err) ==
    \/ Includes(err, NoTransportFound)
    \/ Includes(err, Post400)
    \/ Includes(err, TransportNever)

isTransientMutSseOnly(err) == Includes(err, SSE) \/ Includes(err, TransportNever)

isTransientMutTimeouts(err) ==
    \/ Includes(err, NoTransportFound)
    \/ Includes(err, Post400)
    \/ Includes(err, SSE)
    \/ Includes(err, TransportNever)
    \/ Includes(err, <<"Session", "timeout">>)
    \/ Includes(err, <<"Timeout waiting for">>)

\* mcpToolCall: const isTransient = ...
isTransient(err) ==
    \/ Includes(err, NoTransportFound)
    \/ Includes(err, Post400)
    \/ Includes(err, SSE)
    \/ Includes(err, TransportNever)

\* ------------------------------------------------------------ input domains
ToolsList == "__tools_list__"
\* req.body of POST /api/mcp/tool: <<name, arguments>>; "" = no name, "null" = no arguments
Bodies == {<<"get_ads", "args1">>, <<"get_ads", "null">>, <<ToolsList, "null">>, <<"", "null">>}
OneBody == {<<"get_ads", "args1">>, <<"", "null">>}
\* event.data of an endpoint announcement
FirstPath == "/m?s=1"
Paths == {FirstPath, "/m?s=2"}
EventMessages == {<<>>, <<"socket hang up">>}

\* error{code, message} of a response frame: <<code>> \o message; <<>> when absent
ProtocolErrors == {<<"-32000", "bad key">>, <<"-32000", "No transport found">>}

\* result of a response frame: has = the frame has a result member; content = its
\* content list (<<>>: none, or empty), entries <<type, text>>
TextJson == "{a:1}"
TextPlain == "not json"
NoResult == [has |-> FALSE, content |-> <<>>]
Results ==
    { [has |-> TRUE, content |-> <<>>],
      [has |-> TRUE, content |-> <<<<"text", TextJson>>>>],
      [has |-> TRUE, content |-> <<<<"image", "png">>, <<"text", TextPlain>>>>],
      [has |-> TRUE, content |-> <<<<"text", TextPlain>>, <<"text", TextJson>>>>] }

\* event.data of a message event: not JSON, or a parsed object {id?, result?, error?}
NoId == 0
UnknownId == MaxIds + 1
FrameIds == 0..UnknownId
InvalidJson == [json |-> FALSE, id |-> NoId, error |-> <<>>, result |-> NoResult]
\* the frames of a backend that answers each request once, well or with an error
AnswerFrames ==
    [json : {TRUE}, id : {1, 2}, error : {<<>>}, result : {[has |-> TRUE, content |-> <<>>]}]
    \cup [json : {TRUE}, id : {1, 2}, error : {<<"-32000", "bad key">>}, result : {NoResult}]
\* and of one that also sends frames nobody waits for
StrayFrames ==
    AnswerFrames \cup {InvalidJson}
    \cup [json : {TRUE}, id : {NoId, UnknownId}, error : {<<>>}, result : {[has |-> TRUE, content |-> <<>>]}]
Frames ==
    {InvalidJson}
    \cup [json : {TRUE}, id : FrameIds, error : {<<>>}, result : Results \cup {NoResult}]
    \cup [json : {TRUE}, id : FrameIds, error : ProtocolErrors, result : {NoResult}]

\* what a POST to the command channel ends with: an HTTP status and body, or a
\* rejected fetch (status "none", body = the error's message)
Acks ==
    { [status |-> "200", body |-> <<>>],
      [status |-> "202", body |-> <<>>],
      [status |-> "400", body |-> <<"No transport found">>],
      [status |-> "500", body |-> <<"internal">>],
      [status |-> "none", body |-> <<"fetch failed">>] }

\* the acknowledgements of a command channel that accepts every POST
OkAcks == {a \in Acks : a.status \in {"200", "202"}}

Keys == {"k0", "k1"}

\* ------------------------------------------------------------------ session
Ids == 1..MaxIds

\* the closure of one mcpSessionCall: its locals and what it has sent
NewSession(toolName, toolArgs, key) ==
    [ toolName |-> toolName,
      toolArgs |-> toolArgs,
      settled |-> FALSE,
      es |-> "open",
      timer |-> "armed",
      pending |-> [id \in Ids |-> 0],
      msgUrl |-> "null",
      phase |-> "connecting",
      chains |-> <<>>,
      reqs |-> <<>>,
      eps |-> 0,
      esKey |-> key,
      outcome |-> <<"pending">>,
      closes |-> 0,
      clears |-> 0,
      settles |-> 0,
      order |-> <<>> ]

settleMutNoGuard(s, kind, val) ==
    [s EXCEPT !.settled = TRUE,
              !.es = "null",
              !.closes = @ + 1,
              !.timer = "null",
              !.clears = @ + 1,
              !.settles = @ + 1,
              !.order = @ \o <<"close", "clear", "settle">>,
              !.outcome = IF s.outcome = <<"pending">> THEN <<kind, val>> ELSE @]

settleMutSettleFirst(s, kind, val) ==
    IF s.settled THEN s
    ELSE [s EXCEPT !.settled = TRUE,
                   !.es = "null",
                   !.closes = @ + (IF s.es # "null" THEN 1 ELSE 0),
                   !.timer = "null",
                   !.clears = @ + (IF s.timer # "null" THEN 1 ELSE 0),
                   !.settles = @ + 1,
                   !.order = @ \o <<"settle">>
                               \o (IF s.es # "null" THEN <<"close">> ELSE <<>>)
                               \o (IF s.timer # "null" THEN <<"clear">> ELSE <<>>),
                   !.outcome = IF s.outcome = <<"pending">> THEN <<kind, val>> ELSE @]

\* function settle(fn, val); the promise keeps its first settlement; order = the
\* effects in the order the statements of lines 62-64 make them
settle(s, kind, val) ==
    IF s.settled THEN s
    ELSE [s EXCEPT !.settled = TRUE,
                   !.es = "null",
                   !.closes = @ + (IF s.es # "null" THEN 1 ELSE 0),
                   !.timer = "null",
                   !.clears = @ + (IF s.timer # "null" THEN 1 ELSE 0),
                   !.settles = @ + 1,
                   !.order = @ \o (IF s.es # "null" THEN <<"close">> ELSE <<>>)
                               \o (IF s.timer # "null" THEN <<"clear">> ELSE <<>>)
                               \o <<"settle">>,
                   !.outcome = IF s.outcome = <<"pending">> THEN <<kind, val>> ELSE @]

\* JSON.parse(tc.text): <<TRUE, value>>, or <<FALSE>> when it throws
JsonParse(text) == IF text = TextJson THEN <<TRUE, "a", "1">> ELSE <<FALSE>>

\* result.result.content.find(c => c.type === 'text')
RECURSIVE FindText(_)
FindText(content) ==
    IF content = <<>> THEN <<>>
    ELSE IF Head(content)[1] = "text" THEN Head(content)
    ELSE FindText(Tail(content))

ExtractResultMutNoParse(frame) ==
    LET tc == FindText(frame.result.content)
    IN IF tc # <<>> THEN <<"data", tc[2]>>
       ELSE IF frame.result.has THEN <<"result">> ELSE <<"response">>

\* the value the attempt resolves with (lines 193-201)
ExtractResult(frame) ==
    LET tc == FindText(frame.result.content)
    IN IF tc # <<>>
       THEN (IF JsonParse(tc[2])[1] THEN <<"parsed">> \o Tail(JsonParse(tc[2]))
             ELSE <<"data", tc[2]>>)
       ELSE IF frame.result.has THEN <<"result">> ELSE <<"response">>

\* ------------------------------------------------- requests of one session
\* reqs is the list of the POSTs the closure has made, in order.  A correlated
\* request (postRpc) has an id, its own timeout timer (tmo), its own promise (st)
\* and its fetch in flight (fetch); a notification has id NoId and none of these.
\* A chain is one run of doInitialize: pc = where it waits, slept = the delays it
\* has waited at line 159, overdue = Date.now() - start has reached 20000,
\* expired = it left the loop through the deadline test (line 216), thrown = the
\* error it threw (<<>>: none).
NewChain ==
    [pc |-> "backoff", delay |-> InitialDelay * TimeScale, lastErr |-> <<>>,
     polls |-> 0, await |-> 0, slept |-> <<>>, overdue |-> FALSE, expired |-> FALSE,
     thrown |-> <<>>]

setChain(s, c, field, val) == [s EXCEPT !.chains[c][field] = val]

\* function postRpc(id, method, params), up to the fetch being issued
postRpc(s, c, id, method, params, key) ==
    LET r == Len(s.reqs) + 1
    IN [s EXCEPT !.reqs = Append(@, [chain |-> c, id |-> id, method |-> method,
                                    params |-> params, url |-> s.msgUrl, key |-> key,
                                    tmo |-> TRUE, fetch |-> TRUE, st |-> "pending",
                                    respId |-> NoId, respErr |-> <<>>]),
                 !.pending[id] = r,
                 !.chains[c].await = r]

\* function notify(method): fire and forget, errors ignored
notify(s, c, method, key) ==
    [s EXCEPT !.reqs = Append(@, [chain |-> c, id |-> NoId, method |-> method,
                                 params |-> <<>>, url |-> s.msgUrl, key |-> key,
                                 tmo |-> FALSE, fetch |-> FALSE, st |-> "none",
                                 respId |-> NoId, respErr |-> <<>>])]

notifyDoneMutFatal(s, r, ack) ==
    IF ack.status = "none"
    THEN settle([s EXCEPT !.reqs[r].st = "ignored"], "rejected", ack.body)
    ELSE [s EXCEPT !.reqs[r].st = "sent"]

\* the fetch of the notification r ends: a rejection is swallowed by
\* .catch(() => {}) (line 149), a response of any status is not looked at
notifyDone(s, r, ack) ==
    [s EXCEPT !.reqs[r].st = IF ack.status = "none" THEN "ignored" ELSE "sent"]

\* pending.delete(id)
pendingDelete(s, id) == [s EXCEPT !.pending[id] = 0]

nextDelayMutDouble(delay) ==
    IF delay * 2 < DelayCap * TimeScale THEN delay * 2 ELSE DelayCap * TimeScale

nextDelayMutNoCap(delay) == (delay * 3) \div 2

\* delay = Math.min(delay * 1.5, 3000)
nextDelay(delay) ==
    IF (delay * 3) \div 2 < DelayCap * TimeScale THEN (delay * 3) \div 2
    ELSE DelayCap * TimeScale

\* the chain c leaves doInitialize with a thrown error:
\* doInitialize().catch(err => settle(rejectOuter, err))
chainThrows(s, c, err) ==
    settle([s EXCEPT !.chains[c].pc = "end", !.chains[c].thrown = err], "rejected", err)

loopHeadMutNeverReady(s, c, late) ==
    IF ~late THEN setChain(s, c, "pc", "backoff")
    ELSE chainThrows([s EXCEPT !.chains[c].overdue = TRUE, !.chains[c].expired = TRUE], c,
                     TransportNeverError \o s.chains[c].lastErr)

\* the head of the while loop (line 158) and the sleep it starts, or the throw
\* after the loop (line 216); late = the deadline test failed
loopHead(s, c, late) ==
    IF ~late THEN setChain(s, c, "pc", "backoff")
    ELSE chainThrows([s EXCEPT !.chains[c].overdue = TRUE, !.chains[c].expired = TRUE], c,
                     IF s.chains[c].lastErr # <<>> THEN s.chains[c].lastErr
                     ELSE TransportNeverError)

\* the catch block of doInitialize (lines 204-214)
catch(s, c, err, late) ==
    LET s1 == setChain(s, c, "lastErr", err)
    IN IF isTransport(err)
       THEN loopHead(setChain(s1, c, "delay", nextDelay(s.chains[c].delay)), c, late)
       ELSE chainThrows(s1, c, err)

\* lines 167-176: the continuation of `await postRpc(1, 'initialize', ...)`
initResolved(s, c, resp, key, late) ==
    IF resp.error # <<>> THEN catch(s, c, McpError(resp.error), late)
    ELSE setChain(notify(s, c, "notifications/initialized", key), c, "pc", "pause")

callResolvedMutDoneFirst(s, c, result, late) ==
    IF result.error # <<>>
    THEN settle([setChain(s, c, "pc", "end") EXCEPT !.phase = "done"],
                "rejected", McpError(result.error))
    ELSE settle([setChain(s, c, "pc", "end") EXCEPT !.phase = "done"],
                "resolved", ExtractResult(result))

\* lines 186-202: the continuation of `await postRpc(2, ...)`
callResolved(s, c, result, late) ==
    IF result.error # <<>>
    THEN settle(setChain(s, c, "pc", "end"), "rejected", McpError(result.error))
    ELSE settle([setChain(s, c, "pc", "end") EXCEPT !.phase = "done"],
                "resolved", ExtractResult(result))

\* the code awaiting a resolved postRpc resumes: doInitialize after its first or
\* its second await of postRpc; a caller outside doInitialize just holds the value
resumed(s, c, data, key, late) ==
    IF s.chains[c].pc = "init" THEN initResolved(s, c, data, key, late)
    ELSE IF s.chains[c].pc = "call" THEN callResolved(s, c, data, late)
    ELSE s

\* the promise of request r is rejected (how: "timedout" by its timer, "failed" by
\* its fetch): a no-op unless it is still pending; otherwise the awaiting chain
\* resumes in its catch block
reject(s, r, how, err, late) ==
    IF s.reqs[r].st # "pending" THEN s
    ELSE LET s2 == [s EXCEPT !.reqs[r].st = how]
             c == s.reqs[r].chain
         IN IF s.chains[c].pc \in {"init", "call"} THEN catch(s2, c, err, late) ELSE s2

resolveMutKeepTimer(s, r, data, key, late) ==
    IF s.reqs[r].st # "pending" THEN s
    ELSE LET s2 == [s EXCEPT !.reqs[r].st = "resolved", !.reqs[r].respId = data.id,
                                     !.reqs[r].respErr = data.error]
             c == s.reqs[r].chain
         IN resumed(s2, c, data, key, late)

\* the entry's resolve: (data) => { clearTimeout(timeout); resolve(data); }
resolve(s, r, data, key, late) ==
    LET s1 == [s EXCEPT !.reqs[r].tmo = FALSE]
    IN IF s.reqs[r].st # "pending" THEN s1
       ELSE LET s2 == [s1 EXCEPT !.reqs[r].st = "resolved", !.reqs[r].respId = data.id,
                                     !.reqs[r].respErr = data.error]
                c == s.reqs[r].chain
            IN resumed(s2, c, data, key, late)

\* if (data.id != null && pending.has(data.id))
matches(s, f) == f.json /\ f.id \in Ids /\ s.pending[f.id] # 0

messageListenerMutAnyId(s, f, key, late) ==
    IF ~f.json THEN s
    ELSE LET id == IF f.id \in Ids /\ s.pending[f.id] # 0 THEN f.id
                   ELSE IF s.pending[1] # 0 THEN 1 ELSE 2
         IN IF s.pending[id] = 0 THEN s
            ELSE resolve(pendingDelete(s, id), s.pending[id], f, key, late)

\* es.addEventListener('message', ...)
messageListener(s, f, key, late) ==
    IF matches(s, f)
    THEN resolve(pendingDelete(s, f.id), s.pending[f.id], f, key, late)
    ELSE s

\* es.addEventListener('endpoint', ...): sets msgUrl and phase and starts a
\* doInitialize chain, which runs to its first sleep
endpointListener(s, path) ==
    [s EXCEPT !.msgUrl = path, !.phase = "initializing", !.eps = @ + 1,
              !.chains = Append(@, NewChain)]

errorListenerMutAnyPhase(s, m) == settle(s, "rejected", SseError(m))

\* es.addEventListener('error', ...)
errorListener(s, m) ==
    IF s.phase = "connecting" THEN settle(s, "rejected", SseError(m)) ELSE s

sessionTimeoutMutNoSettle(s) == [s EXCEPT !.timer = "null"]

\* timer = setTimeout(() => settle(rejectOuter, new Error('Session timeout')), timeoutMs)
sessionTimeout(s) == settle(s, "rejected", SessionTimeoutError)

\* the sleep of the loop ends (line 159) and initialize is posted (line 161)
backoffElapsed(s, c, key) ==
    postRpc([setChain(s, c, "pc", "init") EXCEPT
                 !.chains[c].polls = @ + 1,
                 !.chains[c].slept = Append(@, s.chains[c].delay)],
            c, 1, "initialize", <<"2024-11-05">>, key)

\* the pause after the acknowledgement ends (line 176); lines 179-184
pauseElapsed(s, c, key) ==
    LET isToolsList == s.toolName = ToolsList
    IN postRpc([setChain(s, c, "pc", "call") EXCEPT !.phase = "calling"], c, 2,
               IF isToolsList THEN "tools/list" ELSE "tools/call",
               IF isToolsList THEN <<>>
               ELSE <<s.toolName, IF s.toolArgs = "null" THEN "{}" ELSE s.toolArgs>>,
               key)

\* the per-request timer fires (lines 114-117)
requestTimeout(s, r, late) ==
    reject(pendingDelete([s EXCEPT !.reqs[r].tmo = FALSE], s.reqs[r].id), r,
           "timedout", TimeoutError(s.reqs[r].method), late)

fetchDoneMutKeepEntry(s, r, ack, late) ==
    LET s1 == [s EXCEPT !.reqs[r].fetch = FALSE]
    IN IF ack.status = "none" THEN reject(s1, r, "failed", ack.body, late)
       ELSE IF ack.status # "200" /\ ack.status # "202"
       THEN reject(s1, r, "failed", PostError(ack.status, ack.body), late)
       ELSE s1

\* the fetch of request r ends (lines 127-139)
fetchDone(s, r, ack, late) ==
    LET s1 == [s EXCEPT !.reqs[r].fetch = FALSE]
        failed == pendingDelete([s1 EXCEPT !.reqs[r].tmo = FALSE], s.reqs[r].id)
    IN IF ack.status = "none" THEN reject(failed, r, "failed", ack.body, late)
       ELSE IF ack.status # "200" /\ ack.status # "202"
       THEN reject(failed, r, "failed", PostError(ack.status, ack.body), late)
       ELSE s1

\* ------------------------------------------------------ the retry wrapper
\* 3000 * (attempt + 1)
RetryDelayUnit == 3000

NewInvocation(route, name, args, st) ==
    [route |-> route, name |-> name, args |-> args, st |-> st, attempt |-> 0,
     delays |-> <<>>, res |-> [status |-> "none", body |-> <<>>], replies |-> 0]

\* res.json(result) / res.status(500).json({ error: err.message })
respond(v, status, body) ==
    [v EXCEPT !.st = "responded", !.res = [status |-> status, body |-> body],
              !.replies = @ + 1]

mcpToolCallMutExtraRetry(v, o) ==
    IF o[1] = "resolved" THEN respond(v, "200", o[2])
    ELSE IF isTransient(o[2]) /\ v.attempt < maxRetries
         THEN [v EXCEPT !.st = "retrywait",
                        !.delays = Append(@, RetryDelayUnit * (v.attempt + 1))]
         ELSE respond(v, "500", o[2])

mcpToolCallMutRetryAll(v, o) ==
    IF o[1] = "resolved" THEN respond(v, "200", o[2])
    ELSE IF v.attempt < maxRetries - 1
         THEN [v EXCEPT !.st = "retrywait",
                        !.delays = Append(@, RetryDelayUnit * (v.attempt + 1))]
         ELSE respond(v, "500", o[2])

\* mcpToolCall after `await mcpSessionCall(...)` has settled with outcome o, and
\* the route handler after mcpToolCall has returned or thrown
mcpToolCall(v, o) ==
    IF o[1] = "resolved" THEN respond(v, "200", o[2])
    ELSE IF isTransient(o[2]) /\ v.attempt < maxRetries - 1
         THEN [v EXCEPT !.st = "retrywait",
                        !.delays = Append(@, RetryDelayUnit * (v.attempt + 1))]
         ELSE respond(v, "500", o[2])

\* ------------------------------------------------------------------ actions
NoConn == [readyState |-> "NONE", buffer |-> <<>>, currentEvent |-> <<>>,
           currentData |-> <<>>, emitted |-> <<>>, req |-> "null", res |-> "none",
           reqErr |-> FALSE, destroys |-> 0, closeCalls |-> 0, onerror |-> FALSE,
           listeners |-> {}, errors |-> <<>>, faults |-> <<>>, closer |-> FALSE,
           stale |-> 0]
NoWire == [frames |-> <<>>, lines |-> <<>>, text |-> <<>>, pos |-> 0, midline |-> FALSE]

Init ==
    /\ API_KEY = "k0"
    /\ inv = <<>>
    /\ sess = <<>>
    /\ callQueue = <<>>
    /\ conn = NoConn
    /\ wire = NoWire

Cur(i) == sess[i][1]
Started(i) == i \in DOMAIN sess /\ sess[i] # <<>>
Invocations == DOMAIN inv

\* the values the deadline test of line 158 can take when chain c reaches it: it
\* fails once the deadline has passed, and by the time limit requests were sent
LatesUpTo(s, c, limit) ==
    IF s.chains[c].overdue \/ s.chains[c].polls >= limit THEN {TRUE} ELSE {FALSE, TRUE}
Lates(s, c) == LatesUpTo(s, c, MaxPolls)
LatesOfReq(s, r) == Lates(s, s.reqs[r].chain)

StepMutAbortOnFailure(i, s2) ==
    LET done == Cur(i).outcome = <<"pending">> /\ s2.outcome # <<"pending">>
        v2 == IF done THEN mcpToolCall(inv[i], s2.outcome) ELSE inv[i]
        finished == v2.st = "responded" /\ inv[i].route = "tool"
        q2 == IF done /\ finished THEN Tail(callQueue) ELSE callQueue
        starts == done /\ finished /\ q2 # <<>> /\ v2.res.status = "200"
    IN /\ inv' = [k \in DOMAIN inv |->
                    IF k = i THEN v2
                    ELSE IF starts /\ k = Head(q2) THEN [inv[k] EXCEPT !.st = "running"]
                    ELSE inv[k]]
       /\ sess' = [k \in DOMAIN sess |->
                    IF k = i THEN <<s2>>
                    ELSE IF starts /\ k = Head(q2)
                         THEN <<NewSession(inv[k].name, inv[k].args, API_KEY)>>
                    ELSE sess[k]]
       /\ callQueue' = q2
       /\ UNCHANGED <<API_KEY, transport>>

\* the closure of invocation i becomes s2; when that settles the attempt, the
\* retry wrapper and the route handler run, and the call queue moves on
Step(i, s2) ==
    LET done == Cur(i).outcome = <<"pending">> /\ s2.outcome # <<"pending">>
        v2 == IF done THEN mcpToolCall(inv[i], s2.outcome) ELSE inv[i]
        finished == v2.st = "responded" /\ inv[i].route = "tool"
        q2 == IF done /\ finished THEN Tail(callQueue) ELSE callQueue
        starts == done /\ finished /\ q2 # <<>>
    IN /\ inv' = [k \in DOMAIN inv |->
                    IF k = i THEN v2
                    ELSE IF starts /\ k = Head(q2) THEN [inv[k] EXCEPT !.st = "running"]
                    ELSE inv[k]]
       /\ sess' = [k \in DOMAIN sess |->
                    IF k = i THEN <<s2>>
                    ELSE IF starts /\ k = Head(q2)
                         THEN <<NewSession(inv[k].name, inv[k].args, API_KEY)>>
                    ELSE sess[k]]
       /\ callQueue' = q2
       /\ UNCHANGED <<API_KEY, transport>>

PostToolMutNoQueue(limit, bodies) ==
    /\ Len(inv) < limit
    /\ \E body \in bodies :
         /\ inv' = Append(inv, NewInvocation("tool", body[1], body[2], "running"))
         /\ sess' = Append(sess, <<NewSession(body[1], body[2], API_KEY)>>)
         /\ callQueue' = Append(callQueue, Len(inv) + 1)
         /\ UNCHANGED <<API_KEY, transport>>

\* app.post('/api/mcp/tool', ...); bodies = the request bodies <<name, arguments>>
PostTool(limit, bodies) ==
    /\ Len(inv) < limit
    /\ \E body \in bodies :
         LET name == body[1]
             args == body[2]
         IN IF name = ""
            THEN /\ inv' = Append(inv, respond(NewInvocation("tool", name, args, "new"),
                                               "400", <<"Missing tool name">>))
                 /\ sess' = Append(sess, <<>>)
                 /\ UNCHANGED <<callQueue, API_KEY, transport>>
            ELSE /\ inv' = Append(inv, NewInvocation("tool", name, args,
                                          IF callQueue = <<>> THEN "running" ELSE "queued"))
                 /\ sess' = Append(sess, IF callQueue = <<>>
                                         THEN <<NewSession(name, args, API_KEY)>> ELSE <<>>)
                 /\ callQueue' = Append(callQueue, Len(inv) + 1)
                 /\ UNCHANGED <<API_KEY, transport>>

\* app.get('/api/mcp/tools', ...)
GetTools(limit) ==
    /\ Len(inv) < limit
    /\ inv' = Append(inv, NewInvocation("list", ToolsList, "null", "running"))
    /\ sess' = Append(sess, <<NewSession(ToolsList, "null", API_KEY)>>)
    /\ UNCHANGED <<callQueue, API_KEY, transport>>

RetryDelayElapsedMutKeepState(i) ==
    /\ inv[i].st = "retrywait"
    /\ inv' = [inv EXCEPT ![i].st = "running", ![i].attempt = @ + 1]
    /\ sess' = [sess EXCEPT ![i] = <<[NewSession(inv[i].name, inv[i].args, API_KEY) EXCEPT
                                         !.msgUrl = Cur(i).msgUrl,
                                         !.phase = Cur(i).phase,
                                         !.pending = Cur(i).pending]>>]
    /\ UNCHANGED <<callQueue, API_KEY, transport>>

RetryDelayElapsedMutNoRestart(i) ==
    /\ inv[i].st = "retrywait"
    /\ inv' = [inv EXCEPT ![i].st = "running", ![i].attempt = @ + 1]
    /\ UNCHANGED <<sess, callQueue, API_KEY, transport>>

\* the retry delay of mcpToolCall ends: the next attempt starts
RetryDelayElapsed(i) ==
    /\ inv[i].st = "retrywait"
    /\ inv' = [inv EXCEPT ![i].st = "running", ![i].attempt = @ + 1]
    /\ sess' = [sess EXCEPT ![i] = <<NewSession(inv[i].name, inv[i].args, API_KEY)>>]
    /\ UNCHANGED <<callQueue, API_KEY, transport>>

OnEndpoint(i) ==
    /\ Started(i) /\ Cur(i).es = "open" /\ Cur(i).eps < 1
    /\ Step(i, endpointListener(Cur(i), FirstPath))

OnEndpointAgain(i) ==
    /\ Started(i) /\ Cur(i).es = "open" /\ Cur(i).eps >= 1 /\ Cur(i).eps < MaxEndpoints
    /\ \E path \in Paths : Step(i, endpointListener(Cur(i), path))

OnMessage(i, frames) ==
    /\ Started(i) /\ Cur(i).es = "open"
    /\ \E f \in frames :
         \E late \in (IF matches(Cur(i), f) THEN LatesOfReq(Cur(i), Cur(i).pending[f.id])
                      ELSE {TRUE}) :
            Step(i, messageListener(Cur(i), f, API_KEY, late))

OnError(i) ==
    /\ Started(i) /\ Cur(i).es = "open"
    /\ \E m \in EventMessages : Step(i, errorListener(Cur(i), m))

SessionTimer(i) ==
    /\ Started(i) /\ Cur(i).timer = "armed"
    /\ Step(i, sessionTimeout(Cur(i)))

BackoffElapsed(i) ==
    /\ Started(i)
    /\ \E c \in DOMAIN Cur(i).chains :
         /\ Cur(i).chains[c].pc = "backoff"
         /\ Step(i, backoffElapsed(Cur(i), c, API_KEY))

PauseElapsed(i) ==
    /\ Started(i)
    /\ \E c \in DOMAIN Cur(i).chains :
         /\ Cur(i).chains[c].pc = "pause"
         /\ Step(i, pauseElapsed(Cur(i), c, API_KEY))

RequestTimeout(i) ==
    /\ Started(i)
    /\ \E r \in DOMAIN Cur(i).reqs :
         /\ Cur(i).reqs[r].tmo
         /\ \E late \in LatesOfReq(Cur(i), r) : Step(i, requestTimeout(Cur(i), r, late))

FetchDoneUpTo(i, acks, limit) ==
    /\ Started(i)
    /\ \E r \in DOMAIN Cur(i).reqs :
         /\ Cur(i).reqs[r].fetch
         /\ \E ack \in acks, late \in LatesUpTo(Cur(i), Cur(i).reqs[r].chain, limit) :
              Step(i, fetchDone(Cur(i), r, ack, late))

FetchDone(i, acks) == FetchDoneUpTo(i, acks, MaxPolls)

\* the POST of a notification ends
NotifyDone(i, acks) ==
    /\ Started(i)
    /\ \E r \in DOMAIN Cur(i).reqs :
         /\ Cur(i).reqs[r].id = NoId /\ Cur(i).reqs[r].st = "none"
         /\ \E ack \in acks : Step(i, notifyDone(Cur(i), r, ack))

\* 20 s have passed since a running doInitialize read `start` (line 154)
DeadlinePasses(i) ==
    /\ Started(i)
    /\ \E c \in DOMAIN Cur(i).chains :
         /\ Cur(i).chains[c].pc # "end"
         /\ ~Cur(i).chains[c].overdue
         /\ Step(i, setChain(Cur(i), c, "overdue", TRUE))

\* app.post('/api/mcp/reconnect', ...): req.body.apiKey, "" when absent
Reconnect ==
    /\ \E apiKey \in Keys \cup {""} :
         API_KEY' = IF apiKey # "" THEN apiKey ELSE API_KEY
    /\ UNCHANGED <<inv, sess, callQueue, transport>>

\* one request, every event of its session attempts, one endpoint announcement
\* per stream
Next ==
    \/ PostTool(1, Bodies)
    \/ GetTools(1)
    \/ \E i \in Invocations : RetryDelayElapsed(i)
    \/ \E i \in Invocations : OnEndpoint(i)
    \/ \E i \in Invocations : OnMessage(i, Frames)
    \/ \E i \in Invocations : OnError(i)
    \/ \E i \in Invocations : SessionTimer(i)
    \/ \E i \in Invocations : BackoffElapsed(i)
    \/ \E i \in Invocations : PauseElapsed(i)
    \/ \E i \in Invocations : RequestTimeout(i)
    \/ \E i \in Invocations : FetchDone(i, Acks)
    \/ \E i \in Invocations : DeadlinePasses(i)

Spec == Init /\ [][Next]_vars

\* one request on a backend that announces the endpoint more than once; the
\* stream stays up and the command channel accepts every POST
NextAnnounce ==
    \/ PostTool(1, OneBody)
    \/ GetTools(1)
    \/ \E i \in Invocations : OnEndpoint(i)
    \/ \E i \in Invocations : OnEndpointAgain(i)
    \/ \E i \in Invocations : OnMessage(i, StrayFrames)
    \/ \E i \in Invocations : SessionTimer(i)
    \/ \E i \in Invocations : BackoffElapsed(i)
    \/ \E i \in Invocations : PauseElapsed(i)
    \/ \E i \in Invocations : RequestTimeout(i)
    \/ \E i \in Invocations : FetchDone(i, OkAcks)

SpecAnnounce == Init /\ [][NextAnnounce]_vars

\* several requests on both routes; each stream announces its endpoint once and
\* the command channel accepts every POST
NextQueue ==
    \/ PostTool(MaxInvocations, OneBody)
    \/ GetTools(MaxInvocations)
    \/ \E i \in Invocations : RetryDelayElapsed(i)
    \/ \E i \in Invocations : OnEndpoint(i)
    \/ \E i \in Invocations : OnMessage(i, AnswerFrames)
    \/ \E i \in Invocations : OnError(i)
    \/ \E i \in Invocations : SessionTimer(i)
    \/ \E i \in Invocations : BackoffElapsed(i)
    \/ \E i \in Invocations : PauseElapsed(i)
    \/ \E i \in Invocations : RequestTimeout(i)
    \/ \E i \in Invocations : FetchDone(i, OkAcks)

SpecQueue == Init /\ [][NextQueue]_vars

\* several requests on the tool route alone
NextTools ==
    \/ PostTool(MaxInvocations, OneBody)
    \/ \E i \in Invocations : RetryDelayElapsed(i)
    \/ \E i \in Invocations : OnEndpoint(i)
    \/ \E i \in Invocations : OnMessage(i, AnswerFrames)
    \/ \E i \in Invocations : OnError(i)
    \/ \E i \in Invocations : SessionTimer(i)
    \/ \E i \in Invocations : BackoffElapsed(i)
    \/ \E i \in Invocations : PauseElapsed(i)
    \/ \E i \in Invocations : RequestTimeout(i)
    \/ \E i \in Invocations : FetchDone(i, OkAcks)

\* the timers of a running event loop fire: each attempt's deadline timer unless
\* it is cleared, and the retry delay of mcpToolCall
SpecQueueLive ==
    /\ Init /\ [][NextTools]_vars
    /\ \A i \in 1..MaxInvocations :
          /\ WF_vars(SessionTimer(i))
          /\ WF_vars(i \in Invocations /\ RetryDelayElapsed(i))

\* one request while the frontend replaces the credential; each stream announces
\* its endpoint once and the command channel accepts every POST
NextReconnect ==
    \/ PostTool(1, OneBody)
    \/ GetTools(1)
    \/ Reconnect
    \/ \E i \in Invocations : RetryDelayElapsed(i)
    \/ \E i \in Invocations : OnEndpoint(i)
    \/ \E i \in Invocations : OnMessage(i, AnswerFrames)
    \/ \E i \in Invocations : OnError(i)
    \/ \E i \in Invocations : SessionTimer(i)
    \/ \E i \in Invocations : BackoffElapsed(i)
    \/ \E i \in Invocations : PauseElapsed(i)
    \/ \E i \in Invocations : RequestTimeout(i)
    \/ \E i \in Invocations : FetchDone(i, OkAcks)

SpecReconnect == Init /\ [][NextReconnect]_vars

\* one request on a backend whose command channel answers the POSTs in any way
\* and whose stream answers each request well or with a fatal error; the
\* initialize loop is followed for ScenarioPolls rounds
NextScenario ==
    \/ PostTool(1, OneBody)
    \/ GetTools(1)
    \/ \E i \in Invocations : OnEndpoint(i)
    \/ \E i \in Invocations : OnMessage(i, AnswerFrames)
    \/ \E i \in Invocations : SessionTimer(i)
    \/ \E i \in Invocations : BackoffElapsed(i)
    \/ \E i \in Invocations : PauseElapsed(i)
    \/ \E i \in Invocations : RequestTimeout(i)
    \/ \E i \in Invocations : FetchDoneUpTo(i, Acks, ScenarioPolls)

SpecScenario == Init /\ [][NextScenario]_vars

\* one request on a backend whose command channel answers every POST, the
\* acknowledgement's too, in any way
NextNotify ==
    \/ PostTool(1, OneBody)
    \/ GetTools(1)
    \/ \E i \in Invocations : OnEndpoint(i)
    \/ \E i \in Invocations : OnMessage(i, AnswerFrames)
    \/ \E i \in Invocations : SessionTimer(i)
    \/ \E i \in Invocations : BackoffElapsed(i)
    \/ \E i \in Invocations : PauseElapsed(i)
    \/ \E i \in Invocations : RequestTimeout(i)
    \/ \E i \in Invocations : FetchDone(i, Acks)
    \/ \E i \in Invocations : NotifyDone(i, Acks)

SpecNotify == Init /\ [][NextNotify]_vars

\* one request on a backend whose command channel answers the POSTs and whose
\* stream, after the endpoint, stays silent; the initialize loop is followed for
\* MaxBackoffs rounds
NextBackoff ==
    \/ PostTool(1, OneBody)
    \/ GetTools(1)
    \/ \E i \in Invocations : OnEndpoint(i)
    \/ \E i \in Invocations : SessionTimer(i)
    \/ \E i \in Invocations : BackoffElapsed(i)
    \/ \E i \in Invocations : RequestTimeout(i)
    \/ \E i \in Invocations : FetchDoneUpTo(i, Acks, MaxBackoffs)

SpecBackoff == Init /\ [][NextBackoff]_vars


\* the per-attempt timer of a running event loop fires unless it is cleared
SpecLive == Spec /\ \A i \in 1..1 : WF_vars(SessionTimer(i))

\* ------------------------------------------- the correlator, driven directly
\* A closure whose endpoint is known and whose caller sends requests with
\* distinct ids through postRpc and holds their promises (chain 1, pc "caller").
InitCorrelator ==
    /\ API_KEY = "k0"
    /\ inv = <<NewInvocation("list", ToolsList, "null", "running")>>
    /\ sess = <<<<[endpointListener(NewSession(ToolsList, "null", "k0"), FirstPath)
                    EXCEPT !.chains = <<[NewChain EXCEPT !.pc = "caller"]>>]>>>>
    /\ callQueue = <<>>
    /\ conn = NoConn
    /\ wire = NoWire

Send(i) ==
    /\ Started(i)
    /\ \E id \in Ids :
         /\ \A r \in DOMAIN Cur(i).reqs : Cur(i).reqs[r].id # id
         /\ Step(i, postRpc(Cur(i), 1, id, "initialize", <<>>, API_KEY))

NextCorrelator ==
    \/ \E i \in Invocations : Send(i)
    \/ \E i \in Invocations : OnMessage(i, Frames)
    \/ \E i \in Invocations : RequestTimeout(i)
    \/ \E i \in Invocations : FetchDone(i, Acks)

SpecCorrelator == InitCorrelator /\ [][NextCorrelator]_vars

\* ------------------------------------------------ the EventSource transport
\* Text is a sequence of one-character strings.
NL == "\n"
Whitespace == {" ", "\t", "\r", NL}
EventPrefix == <<"e", "v", "e", "n", "t", ":">>
DataPrefix == <<"d", "a", "t", "a", ":">>
\* let currentEvent = 'message'
DefaultEvent == <<"m", "e", "s", "s", "a", "g", "e">>

\* line.startsWith(prefix)
StartsWith(line, prefix) ==
    Len(line) >= Len(prefix) /\ SubSeq(line, 1, Len(prefix)) = prefix

\* line.slice(n)
Slice(line, n) == SubSeq(line, n + 1, Len(line))

\* String.prototype.trim
RECURSIVE TrimLeft(_)
TrimLeft(s) ==
    IF s # <<>> /\ Head(s) \in Whitespace THEN TrimLeft(Tail(s)) ELSE s
RECURSIVE TrimRight(_)
TrimRight(s) ==
    IF s # <<>> /\ s[Len(s)] \in Whitespace THEN TrimRight(SubSeq(s, 1, Len(s) - 1)) ELSE s
Trim(s) == TrimRight(TrimLeft(s))

\* buffer.split('\n'): the pieces between newlines, the last one after the last newline
RECURSIVE Split(_)
Split(s) ==
    IF \A k \in 1..Len(s) : s[k] # NL THEN <<s>>
    ELSE LET k == CHOOSE j \in 1..Len(s) : s[j] = NL /\ \A m \in 1..(j - 1) : s[m] # NL
         IN <<SubSeq(s, 1, k - 1)>> \o Split(SubSeq(s, k + 1, Len(s)))

\* the object after `new EventSource(url, options)` (lines 15-20) and after its
\* owner, in the same turn, has set onerror (or not) and registered listeners:
\* req = this._req, res = what has become of the response ("none" yet, "ok" =
\* status 200 and streaming, "bad" = another status, "ended", "failed"),
\* reqErr = the request has emitted 'error', destroys = calls of _req.destroy(),
\* closeCalls = calls of close(), errors = what onerror was called with,
\* faults = the errors the transport has met, delivered or not, closer = the
\* owner's message listener calls close() (as settle does), stale = the events
\* handed to a listener while readyState was CLOSED
NewConn(onerror, listeners) ==
    [NoConn EXCEPT !.readyState = "CONNECTING", !.req = "live",
                   !.onerror = onerror, !.listeners = listeners]

closeMutNoGuard(c) ==
    [c EXCEPT !.readyState = "CLOSED", !.destroys = @ + 1, !.req = "null",
              !.closeCalls = @ + 1]

\* close() (lines 27-33)
close(c) ==
    [c EXCEPT !.readyState = "CLOSED",
              !.destroys = @ + (IF c.req # "null" THEN 1 ELSE 0),
              !.req = "null",
              !.closeCalls = @ + 1]

\* if (this.onerror) this.onerror(err)
signal(c, err) ==
    [c EXCEPT !.faults = Append(@, err),
              !.errors = IF c.onerror THEN Append(@, err) ELSE @]

\* the response callback of mod.request (lines 56-67)
onResponse(c, status) ==
    IF status # "200"
    THEN signal([c EXCEPT !.readyState = "CLOSED", !.res = "bad"], <<"SSE HTTP", status>>)
    ELSE [c EXCEPT !.readyState = "OPEN", !.res = "ok", !.buffer = <<>>,
                   !.currentEvent = DefaultEvent, !.currentData = <<>>]

\* res.on('end', ...) (lines 91-94)
onEnd(c) ==
    signal([c EXCEPT !.readyState = "CLOSED", !.res = "ended"], <<"SSE connection ended">>)

\* res.on('error', ...) (lines 96-99)
onResError(c, err) == signal([c EXCEPT !.readyState = "CLOSED", !.res = "failed"], err)

\* this._req.on('error', ...) (lines 102-105)
onReqError(c, err) == signal([c EXCEPT !.readyState = "CLOSED", !.reqErr = TRUE], err)

\* the object after `new EventSource` has received a 200 response (lines 63-69);
\* emitted = the events handed to listeners by _emit, in order
OpenConn == onResponse(NewConn(FALSE, {}), "200")

processLineMutNoReset(c, line) ==
    IF StartsWith(line, EventPrefix) THEN [c EXCEPT !.currentEvent = Trim(Slice(line, 6))]
    ELSE IF StartsWith(line, DataPrefix) THEN [c EXCEPT !.currentData = Trim(Slice(line, 5))]
    ELSE IF line = <<>> /\ c.currentData # <<>>
    THEN [c EXCEPT !.emitted = Append(@, <<c.currentEvent, c.currentData>>),
                   !.currentData = <<>>]
    ELSE c

\* _emit(event, data) (lines 35-38): the listeners of that event run; the
\* owner's message listener may call close()
_emit(c, event, data) ==
    LET heard == event = DefaultEvent /\ "message" \in c.listeners
        c1 == [c EXCEPT !.emitted = Append(@, <<event, data>>),
                        !.stale = @ + (IF heard /\ c.readyState = "CLOSED" THEN 1 ELSE 0)]
    IN IF heard /\ c.closer THEN close(c1) ELSE c1

\* the body of `for (const line of lines)` (lines 76-87)
processLine(c, line) ==
    IF StartsWith(line, EventPrefix) THEN [c EXCEPT !.currentEvent = Trim(Slice(line, 6))]
    ELSE IF StartsWith(line, DataPrefix) THEN [c EXCEPT !.currentData = Trim(Slice(line, 5))]
    ELSE IF line = <<>> /\ c.currentData # <<>>
    THEN [_emit(c, c.currentEvent, c.currentData) EXCEPT !.currentEvent = DefaultEvent,
                                                         !.currentData = <<>>]
    ELSE c

RECURSIVE processLines(_, _)
processLines(c, lines) ==
    IF lines = <<>> THEN c ELSE processLines(processLine(c, Head(lines)), Tail(lines))

onDataMutDropPartial(c, chunk) ==
    LET lines == Split(c.buffer \o chunk)
    IN processLines([c EXCEPT !.buffer = <<>>], SubSeq(lines, 1, Len(lines) - 1))

\* res.on('data', (chunk) => ...) (lines 70-89)
onData(c, chunk) ==
    LET lines == Split(c.buffer \o chunk)
    IN processLines([c EXCEPT !.buffer = lines[Len(lines)]],
                    SubSeq(lines, 1, Len(lines) - 1))

\* a well-formed frame: an optional event: line, one data: line with a payload,
\* a blank line.  event = <<>>: no event: line.
FrameShapes ==
    [event : {<<>>, <<" ", "e", "p">>}, data : {<<"x">>, <<" ", "a", " ", "b">>}]
FrameSeqs == UNION {[1..n -> FrameShapes] : n \in 0..MaxFrames}

EncodeFrame(f) ==
    (IF f.event = <<>> THEN <<>> ELSE EventPrefix \o f.event \o <<NL>>)
    \o DataPrefix \o f.data \o <<NL, NL>>

RECURSIVE Encode(_)
Encode(fs) == IF fs = <<>> THEN <<>> ELSE EncodeFrame(Head(fs)) \o Encode(Tail(fs))

\* the server's text; pos = characters delivered so far; midline = some chunk
\* has ended in the middle of a line
InitParse ==
    /\ API_KEY = "k0"
    /\ inv = <<>>
    /\ sess = <<>>
    /\ callQueue = <<>>
    /\ conn = OpenConn
    /\ wire \in {[NoWire EXCEPT !.frames = fs, !.text = Encode(fs)] :
                  fs \in FrameSeqs}

\* the next chunk arrives: any number of the remaining characters
Data ==
    /\ conn.readyState = "OPEN"
    /\ \E n \in 1..(Len(wire.text) - wire.pos) :
         /\ conn' = onData(conn, SubSeq(wire.text, wire.pos + 1, wire.pos + n))
         /\ wire' = [wire EXCEPT !.pos = @ + n,
                                 !.midline = @ \/ wire.text[wire.pos + n] # NL]
    /\ UNCHANGED bridge

NextParse == Data

SpecParse == InitParse /\ [][NextParse]_vars

\* ------------------------------------------ the frame parser on any lines
\* the lines a server may send: kind and value say what the line is, text is
\* how it is written
DataX == [kind |-> "data", value |-> <<"x">>, text |-> DataPrefix \o <<"x">>]
DataY == [kind |-> "data", value |-> <<"y">>, text |-> DataPrefix \o <<" ", "y">>]
DataEmpty == [kind |-> "data", value |-> <<>>, text |-> DataPrefix]
EventEp == [kind |-> "event", value |-> <<"e", "p">>, text |-> EventPrefix \o <<"e", "p">>]
Blank == [kind |-> "blank", value |-> <<>>, text |-> <<>>]
LineKinds == {DataX, DataY, DataEmpty, EventEp, Blank}
NamedFrame == <<EventEp, DataX, Blank>>
LineSeqs ==
    {pre \o body : pre \in {<<>>, NamedFrame},
                   body \in UNION {[1..n -> LineKinds] : n \in 0..MaxLines}}

RECURSIVE EncodeLines(_)
EncodeLines(ls) ==
    IF ls = <<>> THEN <<>> ELSE Head(ls).text \o <<NL>> \o EncodeLines(Tail(ls))

\* an open connection and a text of any lines, each ended by a newline
InitLines ==
    /\ API_KEY = "k0"
    /\ inv = <<>>
    /\ sess = <<>>
    /\ callQueue = <<>>
    /\ conn = OpenConn
    /\ wire \in {[NoWire EXCEPT !.lines = ls, !.text = EncodeLines(ls)] : ls \in LineSeqs}

SpecLines == InitLines /\ [][NextParse]_vars

\* ------------------------------------------------- the transport's lifecycle
Statuses == {"200", "503"}
SocketErrors == {<<"ECONNRESET">>}
\* how the owner listens for errors: the onerror property, addEventListener
Owners ==
    {o \in [onerror : BOOLEAN, listeners : {{}, {"error"}, {"message", "error"}},
            closer : BOOLEAN] : o.closer => "message" \in o.listeners}

InitTransport ==
    /\ API_KEY = "k0"
    /\ inv = <<>>
    /\ sess = <<>>
    /\ callQueue = <<>>
    /\ conn \in {[NewConn(o.onerror, o.listeners) EXCEPT !.closer = o.closer] : o \in Owners}
    /\ wire \in {[NoWire EXCEPT !.frames = fs, !.text = Encode(fs)] :
                  fs \in FrameSeqs}

\* the HTTP response arrives: once, on a request that has neither failed nor
\* been destroyed
Response ==
    /\ conn.res = "none" /\ ~conn.reqErr /\ conn.destroys = 0
    /\ \E status \in Statuses : conn' = onResponse(conn, status)
    /\ UNCHANGED <<bridge, wire>>

\* the server ends the stream
End ==
    /\ conn.res = "ok" /\ conn.destroys = 0
    /\ conn' = onEnd(conn)
    /\ UNCHANGED <<bridge, wire>>

\* the response stream fails; a destroyed socket may still report it
ResError ==
    /\ conn.res = "ok"
    /\ \E err \in SocketErrors : conn' = onResError(conn, err)
    /\ UNCHANGED <<bridge, wire>>

\* the request fails before a streaming response; a destroyed request may
\* still report it
ReqError ==
    /\ conn.res \in {"none", "bad"} /\ ~conn.reqErr
    /\ \E err \in SocketErrors : conn' = onReqError(conn, err)
    /\ UNCHANGED <<bridge, wire>>

\* the owner calls close()
Close ==
    /\ conn.closeCalls < MaxCloses
    /\ conn' = close(conn)
    /\ UNCHANGED <<bridge, wire>>

NextTransport ==
    \/ Response
    \/ Data
    \/ End
    \/ ResError
    \/ ReqError
    \/ Close

SpecTransport == InitTransport /\ [][NextTransport]_vars

\* ================================================================== claims
Sessions == {i \in DOMAIN sess : sess[i] # <<>>}
Unsettled == <<"pending">>

\* C1: whichever events end a session attempt and in whatever order they come,
\* the stream is closed exactly once, the attempt timer is cancelled exactly once
\* and the caller's promise is settled exactly once (and none of it before).
C1_SettledExactlyOnce ==
    \A i \in Sessions :
        LET s == Cur(i)
        IN /\ s.closes <= 1 /\ s.clears <= 1 /\ s.settles <= 1
           /\ s.settled => /\ s.closes = 1 /\ s.clears = 1 /\ s.settles = 1
                           /\ s.es = "null" /\ s.timer = "null"
                           /\ s.outcome # Unsettled
           /\ ~s.settled => /\ s.closes = 0 /\ s.clears = 0 /\ s.settles = 0
                            /\ s.es = "open" /\ s.timer = "armed"
                            /\ s.outcome = Unsettled

\* the attempt timer ended the attempt and the chain has since thrown into settle
C1_Witness ==
    \E i \in Sessions :
        /\ Cur(i).outcome = <<"rejected", SessionTimeoutError>>
        /\ \E c \in DOMAIN Cur(i).chains :
             Cur(i).chains[c].pc = "end" /\ Cur(i).chains[c].lastErr # <<>>

\* C2: at most one session attempt is active at any time, whatever the
\* interleaving of POST /api/mcp/tool and GET /api/mcp/tools.
C2_AtMostOneActive ==
    Cardinality({i \in Sessions : ~Cur(i).settled}) <= 1

\* C3: of two tool invocations queued in order A then B, B has no session
\* attempt before A has been answered, i.e. before A's last attempt (after all
\* its retries and retry delays) has settled.
Queued == {i \in DOMAIN inv : inv[i].route = "tool" /\ inv[i].name # ""}

C3_Serialized ==
    \A a \in Queued, b \in Queued :
        (a < b /\ (sess[b] # <<>> \/ inv[b].st # "queued")) =>
            /\ inv[a].st = "responded"
            /\ Cur(a).settled

\* B runs after A was retried and then failed
C3_Witness ==
    \E a \in Queued, b \in Queued :
        /\ a < b
        /\ inv[a].attempt >= 1
        /\ inv[a].res.status = "500"
        /\ sess[b] # <<>>
        /\ Cur(b).phase = "initializing"

\* C4: every session attempt eventually settles.
C4_EventuallySettles ==
    \A i \in 1..1 :
        (i \in Sessions /\ ~Cur(i).settled) ~> (i \in Sessions /\ Cur(i).settled)

\* the backend never announced an endpoint and the attempt timer failed the attempt
C4_Witness ==
    \E i \in Sessions :
        /\ Cur(i).outcome = <<"rejected", SessionTimeoutError>>
        /\ Cur(i).phase = "connecting"
        /\ inv[i].st = "responded"

\* C5: a frame whose id has a pending entry resolves the request registered
\* under that id, which was unresolved until then, with that frame, removes that
\* entry and touches no other entry or request, and a second delivery of it does
\* nothing; any other frame (unknown id, no id, not JSON) changes nothing.  No
\* request is ever resolved by a frame with another id.
C5_Correlation ==
    \A i \in Sessions :
        LET s == Cur(i)
        IN /\ \A r \in DOMAIN s.reqs :
                s.reqs[r].st = "resolved" => s.reqs[r].respId = s.reqs[r].id
           /\ \A f \in Frames :
                LET s2 == messageListener(s, f, API_KEY, TRUE)
                IN IF matches(s, f)
                   THEN LET r == s.pending[f.id]
                        IN /\ s.reqs[r].id = f.id
                           /\ s.reqs[r].st = "pending"
                           /\ s2.reqs[r].st = "resolved"
                           /\ s2.reqs[r].respId = f.id
                           /\ s2.pending[f.id] = 0
                           /\ \A id \in Ids \ {f.id} : s2.pending[id] = s.pending[id]
                           /\ \A q \in DOMAIN s.reqs \ {r} : s2.reqs[q] = s.reqs[q]
                           /\ messageListener(s2, f, API_KEY, TRUE) = s2
                   ELSE s2 = s

\* three requests are registered; the last one has been resolved, the first one
\* has timed out, the second is still pending
C5_Witness ==
    \E i \in Sessions :
        /\ Len(Cur(i).reqs) = 3
        /\ Cur(i).reqs[3].st = "resolved"
        /\ Cur(i).reqs[2].st = "pending"
        /\ Cur(i).pending[Cur(i).reqs[2].id] = 2
        /\ Cur(i).reqs[1].st = "timedout"

\* C6: for every correlated request, its timer is armed only while the request
\* is undecided and its entry is in the pending map only while it is undecided;
\* so after a resolution the timer cannot fire, after a timeout no frame
\* resolves it, and a decided request is changed by no frame.
C6_ResolveXorTimeout ==
    \A i \in Sessions :
        LET s == Cur(i)
        IN \A r \in DOMAIN s.reqs :
              /\ s.reqs[r].tmo => s.reqs[r].st = "pending"
              /\ \A id \in Ids : s.pending[id] = r =>
                    s.reqs[r].st = "pending" /\ s.reqs[r].id = id
              /\ s.reqs[r].st # "pending" =>
                    \A f \in Frames :
                        messageListener(s, f, API_KEY, TRUE).reqs[r] = s.reqs[r]

\* initialize was resolved by its frame and the tool call then timed out
C6_Witness ==
    \E i \in Sessions :
        \E r1 \in DOMAIN Cur(i).reqs, r2 \in DOMAIN Cur(i).reqs :
            /\ Cur(i).reqs[r1].st = "resolved"
            /\ Cur(i).reqs[r2].st = "timedout"
            /\ Cur(i).outcome = <<"rejected", TimeoutError("tools/call")>>

\* C7: however the text of N well-formed frames is cut into chunks, the
\* transport is, after each chunk, in the state that delivering the same text
\* as one chunk gives, and when all of it has been delivered it has emitted
\* exactly the N (eventName, payload) pairs of the frames, in order.
ExpectedEvents(fs) ==
    [k \in 1..Len(fs) |->
        <<IF fs[k].event = <<>> THEN DefaultEvent ELSE Trim(fs[k].event), Trim(fs[k].data)>>]

C7_ChunkingInvariant ==
    conn.readyState = "OPEN" =>
        /\ conn = onData(OpenConn, SubSeq(wire.text, 1, wire.pos))
        /\ wire.pos = Len(wire.text) =>
              /\ Len(conn.emitted) = Len(wire.frames)
              /\ conn.emitted = ExpectedEvents(wire.frames)

\* two frames have been delivered whole, with a cut in the middle of a line
C7_Witness ==
    /\ conn.readyState = "OPEN"
    /\ wire.pos = Len(wire.text)
    /\ wire.midline
    /\ Len(wire.frames) = 2
    /\ Len(conn.emitted) = 2
    /\ conn.emitted[1][1] # conn.emitted[2][1]

\* C8: within one session attempt the phase never moves backwards along
\* connecting, initializing, calling, done.
Rank(phase) ==
    CASE phase = "connecting" -> 0
      [] phase = "initializing" -> 1
      [] phase = "calling" -> 2
      [] phase = "done" -> 3

C8_PhaseMonotone ==
    [][\A i \in Sessions :
          (inv'[i].attempt = inv[i].attempt /\ inv'[i].st = inv[i].st) =>
              Rank(sess'[i][1].phase) >= Rank(Cur(i).phase)]_vars

\* C9: after a successful initialize one attempt sends exactly one further
\* correlated request: never a second tool request, and no initialize after it.
C9_OneCallPerAttempt ==
    \A i \in Sessions :
        LET s == Cur(i)
        IN /\ Cardinality({r \in DOMAIN s.reqs : s.reqs[r].id = 2}) <= 1
           /\ \A r1 \in DOMAIN s.reqs, r2 \in DOMAIN s.reqs :
                (r1 < r2 /\ s.reqs[r1].id = 2) => s.reqs[r2].method # "initialize"

\* C10: an attempt that failed with a protocol error is never followed by a
\* retry: the invocation has been answered with that error.
C10_ProtocolErrorNotRetried ==
    \A i \in Sessions :
        \A e \in ProtocolErrors :
            Cur(i).outcome = <<"rejected", McpError(e)>> => inv[i].st = "responded"

\* an attempt of invocation i has failed because chain c left the initialize loop
\* through the deadline test
DeadlineFailure(i, c) ==
    /\ Cur(i).chains[c].expired
    /\ Cur(i).outcome = <<"rejected", Cur(i).chains[c].lastErr>>

\* C11: when an attempt fails because not-ready errors exhausted the deadline of
\* the initialize loop and fewer than maxRetries attempts have been made, the
\* retry wrapper is waiting to start, and can start, a new attempt.
C11_DeadlineFailureRetried ==
    \A i \in Sessions :
        \A c \in DOMAIN Cur(i).chains :
            (DeadlineFailure(i, c) /\ inv[i].attempt < maxRetries - 1) =>
                /\ isTransient(Cur(i).outcome[2])
                /\ inv[i].st = "retrywait"
                /\ ENABLED RetryDelayElapsed(i)

\* the second attempt ran out of time as well and a third one is about to start
C11_Witness ==
    \E i \in Sessions :
        \E c \in DOMAIN Cur(i).chains :
            /\ DeadlineFailure(i, c)
            /\ inv[i].attempt = 1
            /\ inv[i].st = "retrywait"

\* C12: an invocation runs at least one and at most maxRetries attempts; the
\* wait after the failure of attempt i (from 0) is 3000 ms * (i + 1) and there is
\* no wait after the last attempt; three transient failures end the invocation
\* after exactly 3 attempts and waits of 3000 ms and 6000 ms.
C12_AttemptsAndDelays ==
    \A i \in DOMAIN inv :
        LET v == inv[i]
        IN /\ v.attempt \in 0..(maxRetries - 1)
           /\ Len(v.delays) = v.attempt + (IF v.st = "retrywait" THEN 1 ELSE 0)
           /\ \A k \in 1..Len(v.delays) : v.delays[k] = 3000 * k
           /\ (v.st = "responded" /\ v.name # "") => Started(i)
           /\ (v.st = "responded" /\ v.res.status = "500" /\ isTransient(v.res.body)) =>
                 /\ v.attempt + 1 = 3
                 /\ v.delays = <<3000, 6000>>

\* three attempts failed with transient errors
C12_Witness ==
    \E i \in Sessions :
        /\ inv[i].st = "responded"
        /\ inv[i].res.status = "500"
        /\ isTransient(inv[i].res.body)
        /\ inv[i].attempt = 2
        /\ inv[i].delays = <<3000, 6000>>

\* C13: when an attempt fails with a non-transient error, or with any error on
\* the last attempt, the caller is answered with exactly that error, once, and
\* no further attempt can start; no wait was made beyond those between the
\* attempts already run (none at all on the first attempt).
C13_FailurePropagated ==
    \A i \in Sessions :
        LET o == Cur(i).outcome
        IN (o[1] = "rejected" /\ (~isTransient(o[2]) \/ inv[i].attempt = maxRetries - 1)) =>
              /\ inv[i].st = "responded"
              /\ inv[i].res = [status |-> "500", body |-> o[2]]
              /\ inv[i].replies = 1
              /\ Len(inv[i].delays) = inv[i].attempt
              /\ ~ENABLED RetryDelayElapsed(i)

\* the first attempt failed with a non-transient error
C13_Witness ==
    \E i \in Sessions :
        /\ Cur(i).outcome[1] = "rejected"
        /\ ~isTransient(Cur(i).outcome[2])
        /\ inv[i].attempt = 0
        /\ inv[i].delays = <<>>
        /\ inv[i].res.status = "500"

\* C14: a protocol error in the response to initialize ends the chain at once,
\* not through the deadline: the attempt is settled, nothing more is polled and
\* the invocation is answered without a retry.
C14_InitErrorFatal ==
    \A i \in Sessions :
        \A c \in DOMAIN Cur(i).chains :
            (\E e \in ProtocolErrors : Cur(i).chains[c].lastErr = McpError(e)) =>
                /\ Cur(i).chains[c].pc = "end"
                /\ ~Cur(i).chains[c].expired
                /\ Cur(i).settled
                /\ inv[i].st = "responded"

C16_NothingPastDeadline ==
    \A i \in Sessions :
        \A c \in DOMAIN Cur(i).chains :
            (Cur(i).chains[c].overdue /\ ~Cur(i).settled) =>
                Cur(i).chains[c].pc \notin {"backoff", "init"}

\* C17: the first delay waited in the initialize loop is 500 ms, each later one
\* is min(1.5 * previous, 3000 ms) exactly; the delays never decrease, never
\* exceed 3000 ms and stay at 3000 ms once they reach it.  (d = the delays
\* waited so far and the one being waited.)
C17_BackoffDelays ==
    \A i \in Sessions :
        \A c \in DOMAIN Cur(i).chains :
            LET d == Cur(i).chains[c].slept \o
                         (IF Cur(i).chains[c].pc = "backoff" THEN <<Cur(i).chains[c].delay>>
                          ELSE <<>>)
            IN /\ d # <<>> /\ d[1] = 500 * TimeScale
               /\ \A k \in 1..Len(d) : d[k] <= 3000 * TimeScale
               /\ \A k \in 1..(Len(d) - 1) :
                     /\ d[k] <= d[k + 1]
                     /\ 2 * d[k + 1] = (IF 3 * d[k] < 2 * 3000 * TimeScale THEN 3 * d[k]
                                        ELSE 2 * 3000 * TimeScale)
                     /\ d[k] = 3000 * TimeScale => d[k + 1] = 3000 * TimeScale

\* the loop has waited 500, 750, 1125, 1687.5, 2531.25, 3000 and 3000 ms
C17_Witness ==
    \E i \in Sessions :
        \E c \in DOMAIN Cur(i).chains :
            LET d == Cur(i).chains[c].slept
            IN /\ Len(d) = 7
               /\ d[5] < 3000 * TimeScale
               /\ d[6] = 3000 * TimeScale
               /\ d[7] = 3000 * TimeScale

\* the response invocation i owes its caller for the outcome of its own attempt
OwnResponse(i) ==
    [status |-> IF Cur(i).outcome[1] = "resolved" THEN "200" ELSE "500",
     body |-> Cur(i).outcome[2]]

\* the queued invocations not yet answered, in submission order
RECURSIVE Waiting(_)
Waiting(n) ==
    IF n = 0 THEN <<>>
    ELSE Waiting(n - 1) \o (IF n \in Queued /\ inv[n].st # "responded" THEN <<n>> ELSE <<>>)

\* C18: a queued invocation runs as soon as all those submitted before it have
\* been answered, whether they succeeded or failed; the queue holds the
\* unanswered invocations in submission order; an answered invocation got one
\* response, that of its own attempt, and an unanswered one got none.
C18_FailureIsolated ==
    /\ callQueue = Waiting(Len(inv))
    /\ \A b \in Queued :
          /\ (\A a \in Queued : a < b => inv[a].st = "responded") =>
                 Started(b) /\ inv[b].st # "queued"
          /\ inv[b].st = "responded" => inv[b].replies = 1 /\ inv[b].res = OwnResponse(b)
          /\ inv[b].st # "responded" => inv[b].replies = 0 /\ inv[b].res.status = "none"

\* A failed, then B ran and succeeded
C18_Witness ==
    \E a \in Queued, b \in Queued :
        /\ a < b
        /\ inv[a].res.status = "500"
        /\ inv[b].res.status = "200"
        /\ Cur(b).phase = "done"

\* C19: every invocation submitted to the call queue is eventually answered,
\* exactly once, and the answers come in submission order.
C19_EveryCallAnswered ==
    /\ [](\A b \in Queued :
            /\ inv[b].replies <= 1
            /\ inv[b].st = "responded" =>
                   \A a \in Queued : a < b => inv[a].st = "responded")
    /\ \A i \in 1..MaxInvocations :
          (i \in Queued) ~> (i \in Queued /\ inv[i].st = "responded" /\ inv[i].replies = 1)

\* A hung until its deadline timer fired, and B was answered after it
C19_Witness ==
    \E a \in Queued, b \in Queued :
        /\ a < b
        /\ inv[a].res.body = SessionTimeoutError
        /\ inv[b].st = "responded"
        /\ inv[b].replies = 1

\* C20: every request of a session attempt carries the credential the attempt
\* read when it opened its stream.
C20_CredentialPinned ==
    \A i \in Sessions :
        \A r \in DOMAIN Cur(i).reqs : Cur(i).reqs[r].key = Cur(i).esKey

\* a closure as mcpSessionCall leaves it before any event: Connecting, endpoint
\* unknown, nothing pending, nothing sent, stream open, deadline timer armed
Pristine(s) ==
    /\ s.phase = "connecting"
    /\ s.msgUrl = "null"
    /\ \A id \in Ids : s.pending[id] = 0
    /\ s.reqs = <<>> /\ s.chains = <<>>
    /\ s.es = "open" /\ s.timer = "armed" /\ ~s.settled
    /\ s.closes = 0 /\ s.clears = 0 /\ s.settles = 0 /\ s.order = <<>>

\* C21: the step that starts a retry replaces the closure of the failed attempt
\* by a pristine one, whatever the failed attempt had reached; and a closure
\* that has seen no endpoint announcement knows no endpoint, has left
\* Connecting for no other phase, and has nothing pending and nothing sent.
C21_RetryStartsClean ==
    /\ [](\A i \in Sessions :
            Cur(i).eps = 0 =>
                /\ Cur(i).phase = "connecting" /\ Cur(i).msgUrl = "null"
                /\ \A id \in Ids : Cur(i).pending[id] = 0
                /\ Cur(i).reqs = <<>> /\ Cur(i).chains = <<>>)
    /\ [][\A i \in Sessions :
            inv'[i].attempt # inv[i].attempt =>
                /\ inv'[i].attempt = inv[i].attempt + 1
                /\ Cur(i).settled
                /\ Pristine(sess'[i][1])
                /\ sess'[i][1].esKey = API_KEY]_vars

\* a retry has started: the new attempt is in Connecting and has seen nothing
C21_Witness ==
    \E i \in Sessions :
        /\ inv[i].attempt = 1
        /\ inv[i].st = "running"
        /\ inv[i].delays = <<3000>>
        /\ Pristine(Cur(i))

\* C22: an error event of the stream settles an attempt that is in Connecting,
\* with the connection error, and changes nothing in an attempt that has left
\* Connecting; so no attempt that has left Connecting ends with that error.
C22_ErrorFatalOnlyConnecting ==
    \A i \in Sessions :
        /\ (Cur(i).outcome[1] = "rejected" /\ Includes(Cur(i).outcome[2], SSE)) =>
               Cur(i).phase = "connecting"
        /\ \A m \in EventMessages :
              LET s2 == errorListener(Cur(i), m)
              IN IF Cur(i).phase = "connecting"
                 THEN /\ s2.settled
                      /\ ~Cur(i).settled => s2.outcome = <<"rejected", SseError(m)>>
                 ELSE s2 = Cur(i)

\* the stream failed in Connecting and the attempt was rejected with that error
C22_Witness ==
    \E i \in Sessions :
        /\ Cur(i).phase = "connecting"
        /\ Cur(i).outcome = <<"rejected", SseError(<<"socket hang up">>)>>

\* C23: an attempt that failed because its stream failed before an endpoint
\* announcement is classified transient: while attempts remain the retry wrapper
\* is waiting to start, and can start, a new attempt.
C23_ConnectionErrorRetried ==
    \A i \in Sessions :
        \A m \in EventMessages :
            Cur(i).outcome = <<"rejected", SseError(m)>> =>
                /\ isTransient(Cur(i).outcome[2])
                /\ Cur(i).eps = 0
                /\ inv[i].attempt < maxRetries - 1 =>
                       inv[i].st = "retrywait" /\ ENABLED RetryDelayElapsed(i)
                /\ inv[i].attempt = maxRetries - 1 => inv[i].st = "responded"

\* the stream of the first attempt failed without a message; a retry is due
C23_Witness ==
    \E i \in Sessions :
        /\ Cur(i).outcome = <<"rejected", SseError(<<>>)>>
        /\ inv[i].attempt = 0
        /\ inv[i].st = "retrywait"

\* C24: while the write of a correlated request is in flight and the request is
\* undecided, the request is registered under its id, and a response frame with
\* that id delivered then resolves it.
C24_RegisteredBeforeWrite ==
    \A i \in Sessions :
        LET s == Cur(i)
        IN \A r \in DOMAIN s.reqs :
              (s.reqs[r].fetch /\ s.reqs[r].st = "pending") =>
                  /\ s.pending[s.reqs[r].id] = r
                  /\ \A f \in Frames :
                        (f.json /\ f.id = s.reqs[r].id) =>
                            messageListener(s, f, API_KEY, TRUE).reqs[r].st = "resolved"

\* the error a write that ends with ack fails its request with
AckError(ack) == IF ack.status = "none" THEN ack.body ELSE PostError(ack.status, ack.body)

\* C25: when the write of an undecided correlated request fails or is answered
\* with a status other than 200 and 202, the request has failed at once: its
\* id is no longer registered, its timeout is disarmed, and the code awaiting it
\* has caught the error, whose message for a bad status contains the status and
\* the response body.  A failed request never has a timer or a registration.
C25_WriteFailureImmediate ==
    \A i \in Sessions :
        LET s == Cur(i)
        IN \A r \in DOMAIN s.reqs :
              /\ s.reqs[r].st = "failed" =>
                    ~s.reqs[r].tmo /\ ~s.reqs[r].fetch /\ s.pending[s.reqs[r].id] # r
              /\ (s.reqs[r].fetch /\ s.reqs[r].st = "pending") =>
                    \A ack \in Acks \ OkAcks :
                        LET s2 == fetchDone(s, r, ack, TRUE)
                        IN /\ s2.reqs[r].st = "failed"
                           /\ ~s2.reqs[r].tmo
                           /\ s2.pending[s.reqs[r].id] = 0
                           /\ s2.chains[s.reqs[r].chain].lastErr = AckError(ack)
                           /\ ack.status # "none" =>
                                 /\ Includes(AckError(ack), <<ack.status>>)
                                 /\ Includes(AckError(ack), ack.body)

\* the write of the tool call was answered with 500 and the attempt failed with
\* the status and the body in its message
C25_Witness ==
    \E i \in Sessions :
        \E r \in DOMAIN Cur(i).reqs :
            /\ Cur(i).reqs[r].id = 2
            /\ Cur(i).reqs[r].st = "failed"
            /\ Cur(i).outcome = <<"rejected", <<"POST", "500", ":", "internal">>>>

\* the value the tool-call response f is to give: text = the text of the first
\* text-typed entry of its content list
Extracted(f) ==
    LET texts == {k \in DOMAIN f.result.content : f.result.content[k][1] = "text"}
    IN IF texts # {}
       THEN LET k == CHOOSE j \in texts : \A m \in texts : j <= m
                text == f.result.content[k][2]
            IN IF text = TextJson THEN <<"parsed", "a", "1">> ELSE <<"data", text>>
       ELSE IF f.result.has THEN <<"result">> ELSE <<"response">>

\* C26: a tool-call response without error resolves the attempt with the parsed
\* text of the first text-typed content entry, with {data: text} when the text
\* does not parse, with the raw result when there is no such entry, and with
\* the whole response when there is no result.
C26_ResultExtraction ==
    \A i \in Sessions :
        LET s == Cur(i)
        IN /\ s.outcome[1] = "resolved" =>
                \E f \in Frames : f.json /\ f.error = <<>> /\ s.outcome[2] = Extracted(f)
           /\ (~s.settled /\ s.pending[2] # 0) =>
                \A f \in Frames :
                    (f.json /\ f.id = 2 /\ f.error = <<>>) =>
                        messageListener(s, f, API_KEY, TRUE).outcome =
                            <<"resolved", Extracted(f)>>

\* the response held [{type: "text", text: "not json"}, ...]: {data: "not json"}
C26_Witness ==
    \E i \in Sessions :
        /\ Cur(i).outcome = <<"resolved", <<"data", TextPlain>>>>
        /\ Cur(i).phase = "done"
        /\ inv[i].res = [status |-> "200", body |-> <<"data", TextPlain>>]

\* the first two initialize requests of the attempt failed with a not-ready
\* error, the third, the last one sent, was answered without error, and the
\* write of the tool call has not failed
TwoNotReadyThenReady(s) ==
    /\ Len(s.chains) = 1
    /\ {r \in DOMAIN s.reqs : s.reqs[r].method = "initialize"} = {1, 2, 3}
    /\ s.reqs[1].st = "failed" /\ s.reqs[2].st = "failed"
    /\ s.reqs[3].st = "resolved"
    /\ isTransport(s.chains[1].lastErr)
    /\ \A r \in DOMAIN s.reqs : s.reqs[r].id = 2 => s.reqs[r].st # "failed"

RECURSIVE Sum(_)
Sum(d) == IF d = <<>> THEN 0 ELSE Head(d) + Sum(Tail(d))

\* C27 (as the code has it): when the first two initialize requests fail with a
\* not-ready error and the third succeeds, the attempt has waited 500 ms,
\* 750 ms and 1125 ms, one delay before each request, and goes on to the
\* acknowledgement, the pause and the tool call.
C27_ThreeDelaysThenCalling ==
    \A i \in Sessions :
        TwoNotReadyThenReady(Cur(i)) =>
            /\ Cur(i).chains[1].slept = <<500 * TimeScale, 750 * TimeScale, 1125 * TimeScale>>
            /\ Sum(Cur(i).chains[1].slept) = 2375 * TimeScale
            /\ Cur(i).chains[1].pc \in {"pause", "call", "end"}
            /\ Cur(i).reqs[4].method = "notifications/initialized"
            /\ Cur(i).chains[1].pc = "call" => Cur(i).phase = "calling"

\* the third initialize succeeded and the tool call completed
C27_Witness ==
    \E i \in Sessions :
        /\ TwoNotReadyThenReady(Cur(i))
        /\ Cur(i).phase = "done"
        /\ Cur(i).outcome[1] = "resolved"
        /\ Len(Cur(i).reqs) = 5

\* C27 (as stated): in that case the delays waited add up to 500 ms + 750 ms.
C27_TotalBackoff1250 ==
    \A i \in Sessions :
        TwoNotReadyThenReady(Cur(i)) =>
            Sum(Cur(i).chains[1].slept) = (500 + 750) * TimeScale

\* C28: close() may be called any number of times at any point of the
\* connection's life: afterwards the state is CLOSED and _req is gone, the
\* request has been destroyed exactly once, never twice, and a further close()
\* changes nothing.
C28_CloseIdempotent ==
    /\ conn.destroys <= 1
    /\ conn.closeCalls >= 1 =>
          /\ conn.readyState = "CLOSED" /\ conn.req = "null" /\ conn.destroys = 1
    /\ conn.readyState # "NONE" =>
          /\ close(conn).readyState = "CLOSED"
          /\ close(conn).destroys = 1
          /\ close(close(conn)) = [close(conn) EXCEPT !.closeCalls = @ + 1]

\* close() was called twice on a connection that had already failed
C28_Witness ==
    /\ conn.closeCalls = 2
    /\ conn.faults # <<>>
    /\ conn.destroys = 1
    /\ conn.readyState = "CLOSED"

\* C29: after a response with a status other than 200, a socket error or the
\* end of the stream, the state is CLOSED and an owner that has set onerror or
\* registered an error listener has received every such error.
C29_ErrorsReachOwner ==
    conn.faults # <<>> =>
        /\ conn.readyState = "CLOSED"
        /\ (conn.onerror \/ "error" \in conn.listeners) => conn.errors = conn.faults

\* C30: when the caller's promise of an attempt is resolved or rejected, the
\* stream has been closed and the deadline timer cancelled before, in that
\* order, on every exit path; nothing of it happens earlier.
C30_TeardownBeforeSettle ==
    \A i \in Sessions :
        /\ Cur(i).outcome # Unsettled => Cur(i).order = <<"close", "clear", "settle">>
        /\ Cur(i).outcome = Unsettled => Cur(i).order = <<>>

\* the deadline timer fired while the initialize loop was still running
C30_Witness ==
    \E i \in Sessions :
        /\ Cur(i).outcome = <<"rejected", SessionTimeoutError>>
        /\ Cur(i).order = <<"close", "clear", "settle">>
        /\ \E c \in DOMAIN Cur(i).chains :
             Cur(i).chains[c].pc \in {"backoff", "init"} /\ ~Cur(i).chains[c].overdue

\* C31: once an attempt has settled none of its timers is armed: no request of
\* it has its timeout timer armed and none of its chains is in the backoff sleep
\* or in the pause after the acknowledgement.
C31_TimersTornDown ==
    \A i \in Sessions :
        Cur(i).settled =>
            /\ \A r \in DOMAIN Cur(i).reqs : ~Cur(i).reqs[r].tmo
            /\ \A c \in DOMAIN Cur(i).chains : Cur(i).chains[c].pc \notin {"backoff", "pause"}

\* C32: a settled attempt sends nothing more: no step adds a request to the
\* requests of an attempt that was settled before the step.
C32_SettledSendsNothing ==
    [][\A i \in Sessions :
          (Cur(i).settled /\ inv'[i].attempt = inv[i].attempt) =>
              sess'[i][1].reqs = Cur(i).reqs]_vars

\* C33: within one attempt at most one doInitialize chain is ever started, the
\* endpoint URL once set is not replaced (every request of the attempt goes to
\* the same URL), and no two undecided requests carry the same id.
C33_OneChainPerAttempt ==
    \A i \in Sessions :
        LET s == Cur(i)
        IN /\ Len(s.chains) <= 1
           /\ \A r1 \in DOMAIN s.reqs, r2 \in DOMAIN s.reqs : s.reqs[r1].url = s.reqs[r2].url
           /\ \A r \in DOMAIN s.reqs : s.reqs[r].url = s.msgUrl
           /\ \A r1 \in DOMAIN s.reqs, r2 \in DOMAIN s.reqs :
                 (r1 # r2 /\ s.reqs[r1].st = "pending" /\ s.reqs[r2].st = "pending") =>
                     s.reqs[r1].id # s.reqs[r2].id

\* the request of the same chain sent last before request r (0: none)
PrevOfChain(s, r) ==
    LET earlier == {q \in 1..(r - 1) : s.reqs[q].chain = s.reqs[r].chain}
    IN IF earlier = {} THEN 0 ELSE CHOOSE q \in earlier : \A m \in earlier : m <= q

Acknowledgement == "notifications/initialized"
ToolMethods == {"tools/call", "tools/list"}

\* C34: the acknowledgement is sent right after an initialize request of its
\* chain that was answered without error, and by the step that receives that
\* answer; the tool call is sent right after the acknowledgement, by the step
\* that ends the pause; however the write of the acknowledgement ends, nothing
\* but the record of that write changes, so the attempt does not fail by it and
\* the tool call follows the pause.
C34_InitAckCallOrder ==
    /\ [](\A i \in Sessions :
            LET s == Cur(i)
            IN \A r \in DOMAIN s.reqs :
                  /\ s.reqs[r].method = Acknowledgement =>
                        /\ PrevOfChain(s, r) # 0
                        /\ s.reqs[PrevOfChain(s, r)].method = "initialize"
                        /\ s.reqs[PrevOfChain(s, r)].st = "resolved"
                        /\ s.reqs[PrevOfChain(s, r)].respErr = <<>>
                        /\ s.reqs[r].st = "none" =>
                              \A ack \in Acks :
                                  notifyDone(s, r, ack) =
                                      [s EXCEPT !.reqs[r].st = notifyDone(s, r, ack).reqs[r].st]
                  /\ s.reqs[r].method \in ToolMethods =>
                        /\ PrevOfChain(s, r) # 0
                        /\ s.reqs[PrevOfChain(s, r)].method = Acknowledgement
                  /\ (s.reqs[r].method = Acknowledgement /\ s.chains[s.reqs[r].chain].pc = "pause"
                         /\ \A q \in DOMAIN s.reqs : q > r => s.reqs[q].chain # s.reqs[r].chain) =>
                        pauseElapsed(s, s.reqs[r].chain, API_KEY).reqs[Len(s.reqs) + 1].method
                            \in ToolMethods)
    /\ [][\A i \in Sessions :
            (inv'[i].attempt = inv[i].attempt /\ Len(sess'[i][1].reqs) > Len(Cur(i).reqs)) =>
                LET new == sess'[i][1].reqs[Len(sess'[i][1].reqs)]
                IN /\ Len(sess'[i][1].reqs) = Len(Cur(i).reqs) + 1
                   /\ new.method = "initialize" => Cur(i).chains[new.chain].pc = "backoff"
                   /\ new.method = Acknowledgement => Cur(i).chains[new.chain].pc = "init"
                   /\ new.method \in ToolMethods => Cur(i).chains[new.chain].pc = "pause"]_vars

\* the write of the acknowledgement was rejected and the tool call succeeded
C34_Witness ==
    \E i \in Sessions :
        /\ Len(Cur(i).reqs) = 3
        /\ Cur(i).reqs[1].method = "initialize"
        /\ Cur(i).reqs[2].method = Acknowledgement /\ Cur(i).reqs[2].st = "ignored"
        /\ Cur(i).reqs[3].method \in ToolMethods /\ Cur(i).reqs[3].st = "resolved"
        /\ Cur(i).outcome[1] = "resolved"

\* C35: when a chain waiting for the answer to initialize catches an error that
\* is not a not-ready error, the attempt is settled at once, and then no
\* initialize request of the attempt is still undecided or yet to be sent: no
\* chain of it is in the loop.
C35_OtherInitErrorFatal ==
    \A i \in Sessions :
        \A c \in DOMAIN Cur(i).chains :
            (Cur(i).chains[c].thrown # <<>> /\ ~isTransport(Cur(i).chains[c].thrown)
                 /\ ~Cur(i).chains[c].expired) =>
                /\ Cur(i).settled
                /\ Cur(i).chains[c].pc = "end"
                /\ \A d \in DOMAIN Cur(i).chains : Cur(i).chains[d].pc \notin {"backoff", "init"}

\* C36: a response to the tool call that carries error{code, message} rejects
\* the attempt with "MCP error <code>: <message>" and leaves the phase as it
\* is, not Done; an attempt is in Done only when it has resolved, so a rejected
\* attempt is never in Done.
C36_CallErrorFatal ==
    \A i \in Sessions :
        LET s == Cur(i)
        IN /\ s.phase = "done" => s.outcome[1] = "resolved"
           /\ (~s.settled /\ s.pending[2] # 0) =>
                \A f \in Frames :
                    (f.json /\ f.id = 2 /\ f.error # <<>>) =>
                        LET s2 == messageListener(s, f, API_KEY, TRUE)
                        IN /\ s2.outcome = <<"rejected", McpError(f.error)>>
                           /\ Includes(s2.outcome[2], <<Head(f.error)>>)
                           /\ Includes(s2.outcome[2], Tail(f.error))
                           /\ s2.phase = s.phase /\ s2.phase # "done"
                           /\ s2.chains[s.reqs[s.pending[2]].chain].pc = "end"

\* the tool call was answered with error -32000 "bad key"
C36_Witness ==
    \E i \in Sessions :
        /\ Cur(i).outcome = <<"rejected", <<"MCP error", "-32000", ":", "bad key">>>>
        /\ Cur(i).phase = "calling"
        /\ \E r \in DOMAIN Cur(i).reqs :
             Cur(i).reqs[r].id = 2 /\ Cur(i).reqs[r].respErr = <<"-32000", "bad key">>

Methods == {"initialize", "tools/call", "tools/list"}

\* C37: an attempt that failed by its deadline timer ("Session timeout") or by
\* the timeout of one of its requests ("Timeout waiting for ... response") is
\* not transient: the invocation is answered with that error after this
\* attempt, whichever it is, and no further attempt can start.
C37_TimeoutsNotRetried ==
    /\ ~isTransient(SessionTimeoutError)
    /\ \A m \in Methods : ~isTransient(TimeoutError(m))
    /\ \A i \in Sessions :
          (Cur(i).outcome[1] = "rejected"
               /\ Cur(i).outcome[2] \in {SessionTimeoutError} \cup {TimeoutError(m) : m \in Methods}) =>
              /\ inv[i].st = "responded"
              /\ inv[i].res = [status |-> "500", body |-> Cur(i).outcome[2]]
              /\ Len(inv[i].delays) = inv[i].attempt
              /\ ~ENABLED RetryDelayElapsed(i)

\* the first attempt's initialize request timed out and the invocation failed
C37_Witness ==
    \E i \in Sessions :
        /\ Cur(i).outcome = <<"rejected", TimeoutError("initialize")>>
        /\ inv[i].attempt = 0
        /\ inv[i].res = [status |-> "500", body |-> TimeoutError("initialize")]

\* the lines of the text that have been delivered whole
Delivered ==
    SubSeq(wire.lines, 1, Cardinality({k \in 1..wire.pos : wire.text[k] = NL}))

\* line k of ls is a blank line at which an event is due: some data: line has
\* come since the last such line (or the start) and the last of them has a
\* payload.  LastDue(ls, k) = the last such line before line k (0: none).
RECURSIVE Due(_, _), LastDue(_, _)
LastDue(ls, k) ==
    LET due == {j \in 1..(k - 1) : Due(ls, j)}
    IN IF due = {} THEN 0 ELSE CHOOSE j \in due : \A m \in due : m <= j
Due(ls, k) ==
    /\ ls[k].kind = "blank"
    /\ LET data == {j \in (LastDue(ls, k) + 1)..(k - 1) : ls[j].kind = "data"}
       IN /\ data # {}
          /\ ls[CHOOSE j \in data : \A m \in data : m <= j].value # <<>>

\* the event due at line k: the value of the last data: line, under the name of
\* the last event: line since the last event, "message" if there is none
EventDue(ls, k) ==
    LET since == (LastDue(ls, k) + 1)..(k - 1)
        data == {j \in since : ls[j].kind = "data"}
        names == {j \in since : ls[j].kind = "event"}
    IN << IF names = {} THEN DefaultEvent
          ELSE ls[CHOOSE j \in names : \A m \in names : m <= j].value,
          ls[CHOOSE j \in data : \A m \in data : m <= j].value >>

RECURSIVE EventsDue(_, _)
EventsDue(ls, n) ==
    IF n = 0 THEN <<>>
    ELSE EventsDue(ls, n - 1) \o (IF Due(ls, n) THEN <<EventDue(ls, n)>> ELSE <<>>)

\* C38: the parser emits one event at each blank line that follows at least one
\* data: line (since the last event) whose last value is a payload, with that
\* last value, and nothing at any other line; after an event the name is back
\* at "message" and the payload is empty, so an event gets a name only from an
\* event: line that came after the event before it.
C38_LastDataWins ==
    conn.readyState = "OPEN" =>
        LET ls == Delivered
        IN /\ conn.emitted = EventsDue(ls, Len(ls))
           /\ (ls # <<>> /\ Due(ls, Len(ls))) =>
                 conn.currentEvent = DefaultEvent /\ conn.currentData = <<>>

\* a named frame, then two data: lines and a blank line: two events, the second
\* one "message" with the value of the second data: line
C38_Witness ==
    /\ wire.lines = NamedFrame \o <<DataX, DataY, Blank>>
    /\ wire.pos = Len(wire.text)
    /\ conn.emitted = << <<EventEp.value, DataX.value>>, <<DefaultEvent, DataY.value>> >>

\* C39: once close() has been called or an error or the end of the stream has
\* closed the connection, readyState is CLOSED for good and no event is handed
\* to a listener any more.
C39_ClosedAbsorbing ==
    (conn.closeCalls >= 1 \/ conn.faults # <<>>) =>
        /\ conn.readyState = "CLOSED"
        /\ conn.stale = 0

====
